---- MODULE Spec2Model ----
(***************************************************************************)
(* Message-slot character device (message_slot.c, message_slot.h) and its  *)
(* two clients (message_sender.c, message_reader.c).                       *)
(*                                                                         *)
(* The kernel heap is a map from addresses to objects.  An object is a     *)
(* struct message_slot, a struct message_channel, or free.  Pointers are   *)
(* NULL, an address, or WILD (a value that addresses no object of the      *)
(* module).  file->private_data is one untyped pointer: device_open stores *)
(* the slot in it, device_ioctl stores the channel in it, and every        *)
(* handler casts it to the type it expects.  The model keeps that: a       *)
(* handler reads and writes the object it is handed through the layout of  *)
(* the type it casts to (LP64: a slot is 32 bytes, a channel 152 bytes).   *)
(*                                                                         *)
(* A store outside the module's objects, or a load through a WILD pointer  *)
(* that does not fault, sets `corrupt`: the kernel's memory can then hold  *)
(* anything, and the model follows the machine up to that step only.       *)
(***************************************************************************)
EXTENDS Integers, Sequences, FiniteSets, TLC

\* ------------------------------------------------------------------ bounds
NumFiles == 2
\* objects each slab cache can hand out: kmalloc-32 (slots), kmalloc-192 (channels)
MaxSlots == 2
MaxChans == 2
\* stands for 1 << 20, the most channels a slot takes
MAX_CHANNELS == 2

\* ------------------------------------------------------- program constants
MSG_MAX == 128
MAJOR_NUM == 235
EPERM == 1
EAGAIN == 11
ENOMEM == 12
EINVAL == 22
ENOSPC == 28
EMSGSIZE == 90
EWOULDBLOCK == EAGAIN

\* _IOW(MAJOR_NUM, 0, unsigned int): dir=1 (write) <<30 | size=4 <<16 | type <<8 | nr
MSG_SLOT_CHANNEL == 1073741824 + 4 * 65536 + MAJOR_NUM * 256 + 0

\* ------------------------------------------------------------ pointers, bytes
NULL == 0
WILD == -1
\* an indeterminate byte (kmalloc does not clear memory)
U == -2
\* a byte of the upper half of a kernel address
KPTR == 255

SlotAddr == 1..MaxSlots
ChanAddr == (MaxSlots + 1)..(MaxSlots + MaxChans)
Addr == SlotAddr \cup ChanAddr
Files == 1..NumFiles
Minors == {0, 1}

Zeros(n) == [i \in 1..n |-> 0]
Garbage(n) == [i \in 1..n |-> U]
AddrHi == [i \in 1..4 |-> KPTR]

\* bytes b[from..to] of a buffer (1-based, inclusive)
Bytes(b, from, to) == [i \in 1..(to - from + 1) |-> b[from + i - 1]]

\* little-endian value of a byte string
RECURSIVE LE(_)
LE(b) == IF b = <<>> THEN 0 ELSE Head(b) + 256 * LE(Tail(b))

\* n as a little-endian byte string of k bytes
RECURSIVE ToLE(_, _)
ToLE(n, k) == IF k = 0 THEN <<>> ELSE <<n % 256>> \o ToLE(n \div 256, k - 1)

Determinate(b) == \A i \in 1..Len(b) : b[i] # U

\* the low 32 bits of a pointer value
AddrLo(p) == IF p = NULL THEN 0 ELSE IF p = WILD THEN 999 ELSE 1000 + p

\* the pointer made of a low dword and four upper bytes
PtrOf(lo, hi) ==
    IF lo = 0 /\ hi = Zeros(4) THEN NULL
    ELSE IF hi = AddrHi /\ (lo - 1000) \in Addr THEN lo - 1000
    ELSE WILD

\* ------------------------------------------------------------------- state
VARIABLES
    heap,           \* Addr -> object
    brk,            \* objects handed out so far, per slab cache
    slots,          \* head of the slots list
    fstate,         \* Files -> "closed" | "open"
    private_data,   \* Files -> pointer
    f_slot,         \* ghost: the slot device_open attached the file to
    corrupt,        \* foreign memory was written, or a wild pointer followed
    last,           \* the last call and what it returned
    pc,             \* Files -> where the file's handler stands (interleaved runs)
    loc,            \* Files -> the handler's local variables
    proc,           \* Files -> the client program that owns the file
    sent            \* ghost: the last message a sender delivered, per channel

kern == <<heap, brk, slots, corrupt>>
files == <<fstate, private_data, f_slot>>
vars == <<heap, brk, slots, corrupt, fstate, private_data, f_slot, last, pc, loc, proc, sent>>

FreeObj == [kind |-> "free"]
SlotObj(ch, n, mi, nx) ==
    [kind |-> "slot", channels |-> ch, channel_count |-> n, minor |-> mi, next |-> nx]
ChanObj(id, msg, len, nx) ==
    [kind |-> "chan", channel_id |-> id, message |-> msg, message_len |-> len, next |-> nx]

IsSlot(h, p) == p \in Addr /\ h[p].kind = "slot"
IsChan(h, p) == p \in Addr /\ h[p].kind = "chan"

\* the session of file f is bound to a channel
Bound(f) == fstate[f] = "open" /\ IsChan(heap, private_data[f])

NoParam == [hi |-> 0, lo |-> 0]
Call(op, f, ret) ==
    [op |-> op, f |-> f, ret |-> ret, oops |-> FALSE, why |-> "", data |-> <<>>,
     buf |-> <<>>, count |-> 0, room |-> 0, cmd |-> 0, param |-> NoParam,
     minor |-> 0]

\* the locals of a handler: ptr and slot of device_open; slot, current_channel
\* and new_channel of get_or_create_channel; channel of device_read and
\* device_write; n and len are loaded values of channel_count and message_len
NoLocals ==
    [ptr |-> NULL, slot |-> NULL, cur |-> NULL, new |-> NULL, n |-> 0, len |-> 0,
     call |-> Call("none", 0, 0)]
NoProgram == [prog |-> "none"]
\* (minor, channel id) pairs
ChanKeys == Minors \X (0..(MAX_CHANNELS + 1))

Init ==
    /\ heap = [a \in Addr |-> FreeObj]
    /\ brk = [slot |-> 0, chan |-> 0]
    /\ slots = NULL
    /\ fstate = [f \in Files |-> "closed"]
    /\ private_data = [f \in Files |-> NULL]
    /\ f_slot = [f \in Files |-> NULL]
    /\ corrupt = FALSE
    /\ last = Call("none", 0, 0)
    /\ pc = [f \in Files |-> "idle"]
    /\ loc = [f \in Files |-> NoLocals]
    /\ proc = [f \in Files |-> NoProgram]
    /\ sent = [k \in ChanKeys |-> <<>>]

\* kmalloc(sizeof(struct message_slot), GFP_KERNEL): the next free object of
\* the cache, or NULL
kmalloc_slot(alloc_ok) ==
    IF alloc_ok /\ brk.slot < MaxSlots THEN brk.slot + 1 ELSE NULL
\* kmalloc(sizeof(struct message_channel), GFP_KERNEL)
kmalloc_chan(alloc_ok) ==
    IF alloc_ok /\ brk.chan < MaxChans THEN MaxSlots + brk.chan + 1 ELSE NULL

\* ------------------------------------------------------------- device_open
\* the search loop of device_open from list position p, prev the node before
RECURSIVE FindSlot(_, _, _, _)
FindSlot(h, p, prev, minor) ==
    IF p = NULL THEN [kind |-> "end", at |-> prev]
    ELSE IF h[p].minor = minor THEN [kind |-> "found", at |-> p]
    ELSE FindSlot(h, h[p].next, p, minor)

device_open(f, minor, alloc_ok) ==
    LET r == FindSlot(heap, slots, NULL, minor)
        new == kmalloc_slot(alloc_ok)
        call == [Call("open", f, 0) EXCEPT !.minor = minor]
        Attach(p) ==
            /\ fstate' = [fstate EXCEPT ![f] = "open"]
            /\ private_data' = [private_data EXCEPT ![f] = p]
            /\ f_slot' = [f_slot EXCEPT ![f] = p]
            /\ last' = call
    IN  IF r.kind = "found"
        THEN /\ Attach(r.at)
             /\ UNCHANGED kern
        ELSE IF new = NULL
        THEN /\ last' = [call EXCEPT !.ret = -ENOMEM]
             /\ UNCHANGED <<kern, files>>
        ELSE /\ brk' = [brk EXCEPT !.slot = @ + 1]
             /\ Attach(new)
             /\ heap' = IF r.at = NULL
                        THEN [heap EXCEPT ![new] = SlotObj(NULL, 0, minor, NULL)]
                        ELSE [heap EXCEPT ![new] = SlotObj(NULL, 0, minor, NULL),
                                          ![r.at].next = new]
             /\ slots' = IF r.at = NULL THEN new ELSE slots
             /\ UNCHANGED corrupt

\* a release that drops the message of the channel the file was bound to
device_release_clears(f) ==
    /\ fstate' = [fstate EXCEPT ![f] = "closed"]
    /\ private_data' = [private_data EXCEPT ![f] = NULL]
    /\ f_slot' = [f_slot EXCEPT ![f] = NULL]
    /\ last' = Call("close", f, 0)
    /\ heap' = IF IsChan(heap, private_data[f])
               THEN [heap EXCEPT ![private_data[f]].message_len = 0]
               ELSE heap
    /\ UNCHANGED <<brk, slots, corrupt>>

\* close(2): fops has no .release, so the module does nothing
device_release(f) ==
    /\ fstate' = [fstate EXCEPT ![f] = "closed"]
    /\ private_data' = [private_data EXCEPT ![f] = NULL]
    /\ f_slot' = [f_slot EXCEPT ![f] = NULL]
    /\ last' = Call("close", f, 0)
    /\ UNCHANGED kern

\* --------------------------------------------------- get_or_create_channel
\* slot->channels and slot->channel_count as read through a pointer p that is
\* cast to struct message_slot *.  Of a channel object these are channel_id
\* with message[0..3], and message[4..11].
SlotViews(h, p) ==
    IF IsSlot(h, p)
    THEN {[channels |-> h[p].channels, channel_count |-> h[p].channel_count]}
    ELSE LET hi == Bytes(h[p].message, 1, 4)
             cnt == Bytes(h[p].message, 5, 12)
             heads == IF Determinate(hi) THEN {PtrOf(h[p].channel_id, hi)}
                      ELSE IF h[p].channel_id = 0 THEN {NULL, WILD} ELSE {WILD}
             counts == IF Determinate(cnt) THEN {LE(cnt)} ELSE {0, MAX_CHANNELS}
         IN  {[channels |-> c, channel_count |-> n] : c \in heads, n \in counts}

\* the stores slot->channels = ch and slot->channel_count = n through p
WriteSlotView(h, p, ch, n) ==
    IF IsSlot(h, p)
    THEN [h EXCEPT ![p].channels = ch, ![p].channel_count = n]
    ELSE [h EXCEPT ![p].channel_id = AddrLo(ch),
                   ![p].message = [i \in 1..MSG_MAX |->
                        IF i <= 4 THEN KPTR
                        ELSE IF i <= 12 THEN ToLE(n, 8)[i - 4]
                        ELSE h[p].message[i]]]

\* the search loop of get_or_create_channel from list position p
RECURSIVE FindChannel(_, _, _)
FindChannel(h, p, channel_id) ==
    IF p = NULL THEN [kind |-> "end", at |-> NULL]
    ELSE IF ~IsChan(h, p) THEN [kind |-> "wild", at |-> NULL]
    ELSE IF h[p].channel_id = channel_id THEN [kind |-> "found", at |-> p]
    ELSE FindChannel(h, h[p].next, channel_id)

\* why: which return statement was taken (the caller sees only chan)
GocResult(chan, why, h, b, c) ==
    [chan |-> chan, oops |-> FALSE, why |-> why, heap |-> h, brk |-> b, corrupt |-> c]
GocOops ==
    [chan |-> NULL, oops |-> TRUE, why |-> "oops", heap |-> heap, brk |-> brk,
     corrupt |-> corrupt]

\* lines 201-223: the limit check, the allocation (which may fail) and the
\* insertion at the head, for a slot read as view v; w: the list was walked
\* through a wild pointer
CreateChannel(slot, channel_id, v, w) ==
    IF v.channel_count >= MAX_CHANNELS THEN {GocResult(NULL, "limit", heap, brk, w)}
    ELSE {GocResult(NULL, "nomem", heap, brk, w)} \cup
         (IF kmalloc_chan(TRUE) = NULL THEN {}
          ELSE LET new == kmalloc_chan(TRUE)
                   h1 == [heap EXCEPT
                            ![new] = ChanObj(channel_id, Garbage(MSG_MAX), 0, v.channels)]
               IN  {GocResult(new, "created",
                              WriteSlotView(h1, slot, new, v.channel_count + 1),
                              [brk EXCEPT !.chan = @ + 1], w)})

\* every outcome of get_or_create_channel(slot, channel_id) in the current
\* state.  A load through a wild list pointer faults (oops), or yields bytes
\* that match channel_id, or yields bytes that end the list.
get_or_create_channel(slot, channel_id) ==
    LET Outcomes(v) ==
            LET r == FindChannel(heap, v.channels, channel_id)
            IN  IF r.kind = "found" THEN {GocResult(r.at, "found", heap, brk, corrupt)}
                ELSE IF r.kind = "end" THEN CreateChannel(slot, channel_id, v, corrupt)
                ELSE {GocOops, GocResult(WILD, "found", heap, brk, TRUE)}
                         \cup CreateChannel(slot, channel_id, v, TRUE)
    IN  UNION {Outcomes(v) : v \in SlotViews(heap, slot)}

\* ------------------------------------------------------------ device_ioctl
ParamIsZero(ioctl_param) == ioctl_param.hi = 0 /\ ioctl_param.lo = 0
\* (unsigned int)ioctl_param
Narrow(ioctl_param) == ioctl_param.lo

\* the process dies in the kernel: its open file goes away with it
Killed(f, call) ==
    /\ fstate' = [fstate EXCEPT ![f] = "closed"]
    /\ private_data' = [private_data EXCEPT ![f] = NULL]
    /\ f_slot' = [f_slot EXCEPT ![f] = NULL]
    /\ last' = [call EXCEPT !.oops = TRUE]

\* a failure path that drops the binding
ioctl_fail_unbinds(f, call) ==
    /\ last' = [call EXCEPT !.ret = -EINVAL]
    /\ private_data' = [private_data EXCEPT ![f] = NULL]
    /\ UNCHANGED <<fstate, f_slot>>

\* return -EINVAL: nothing is stored
ioctl_fail(f, call) ==
    /\ last' = [call EXCEPT !.ret = -EINVAL]
    /\ UNCHANGED files

\* file->private_data = (void*)channel; return 0
ioctl_bind(f, call, channel) ==
    /\ private_data' = [private_data EXCEPT ![f] = channel]
    /\ last' = call
    /\ UNCHANGED <<fstate, f_slot>>

device_ioctl(f, ioctl_num, ioctl_param) ==
    LET call == [Call("ioctl", f, 0) EXCEPT !.cmd = ioctl_num, !.param = ioctl_param]
        slot == private_data[f]
    IN  IF ioctl_num # MSG_SLOT_CHANNEL \/ ParamIsZero(ioctl_param) \/ slot = NULL
        THEN /\ ioctl_fail(f, [call EXCEPT !.why = "invalid"])
             /\ UNCHANGED kern
        ELSE \E r \in get_or_create_channel(slot, Narrow(ioctl_param)) :
                /\ heap' = r.heap
                /\ brk' = r.brk
                /\ corrupt' = r.corrupt
                /\ UNCHANGED slots
                /\ IF r.oops THEN Killed(f, call)
                   ELSE IF r.chan = NULL THEN ioctl_fail(f, [call EXCEPT !.why = r.why])
                   ELSE ioctl_bind(f, [call EXCEPT !.why = r.why], r.chan)

\* ------------------------------------------------------------ device_write
\* what a successful copy leaves in the cleared message buffer, off by one byte
CopiedShort(m, k) == [i \in 1..MSG_MAX |-> IF i < k THEN m[i] ELSE 0]

\* user buffer m with the first k bytes readable, copied over a cleared
\* 128-byte message buffer (memset, then copy_from_user)
Copied(m, k) == [i \in 1..MSG_MAX |-> IF i <= k THEN m[i] ELSE 0]

\* copy_from_user(dst, buf, count): buf is readable for Len(buf) bytes and
\* unmapped after them; the number of bytes that arrive
Arrived(buf, count) == IF count <= Len(buf) THEN count ELSE Len(buf)

\* a struct message_slot after memset(p + 4, 0, 128) and a copy of b to p + 4:
\* the upper half of channels, channel_count, minor and next are overwritten
SlotOverwritten(s, b) ==
    SlotObj(PtrOf(AddrLo(s.channels), Bytes(b, 1, 4)),
            LE(Bytes(b, 5, 12)),
            LE(Bytes(b, 13, 16)),
            PtrOf(LE(Bytes(b, 21, 24)), Bytes(b, 25, 28)))

\* a write that stores the message in every channel of the same id, whatever
\* its slot
device_write_by_id(f, buf, count) ==
    LET call == [Call("write", f, count) EXCEPT !.buf = buf, !.count = count]
        channel == private_data[f]
        n == Arrived(buf, count)
    IN  /\ IsChan(heap, channel) /\ count > 0 /\ count <= MSG_MAX /\ n = count
        /\ heap' = [a \in Addr |->
                IF IsChan(heap, a) /\ heap[a].channel_id = heap[channel].channel_id
                THEN [heap[a] EXCEPT !.message = Copied(buf, n), !.message_len = count]
                ELSE heap[a]]
        /\ last' = call
        /\ UNCHANGED <<brk, slots, corrupt, files>>

\* a write that stores the length before it knows that the copy succeeded
device_write_len_first(f, buf, count) ==
    LET call == [Call("write", f, count) EXCEPT !.buf = buf, !.count = count]
        channel == private_data[f]
        n == Arrived(buf, count)
    IN  /\ IsChan(heap, channel) /\ count > 0 /\ count <= MSG_MAX
        /\ heap' = [heap EXCEPT ![channel].message = Copied(buf, n),
                                ![channel].message_len = count]
        /\ last' = IF n < count THEN [call EXCEPT !.ret = -EPERM] ELSE call
        /\ UNCHANGED <<brk, slots, corrupt, files>>

\* a write that refuses a message of 128 bytes
device_write_strict(f, buf, count) ==
    LET call == [Call("write", f, count) EXCEPT !.buf = buf, !.count = count]
        channel == private_data[f]
    IN  /\ IsChan(heap, channel) /\ Arrived(buf, count) = count
        /\ IF count = 0 \/ count >= MSG_MAX
           THEN /\ last' = [call EXCEPT !.ret = -EMSGSIZE]
                /\ UNCHANGED <<kern, files>>
           ELSE /\ heap' = [heap EXCEPT ![channel].message = Copied(buf, count),
                                        ![channel].message_len = count]
                /\ last' = call
                /\ UNCHANGED <<brk, slots, corrupt, files>>

device_write(f, buf, count) ==
    LET call == [Call("write", f, count) EXCEPT !.buf = buf, !.count = count]
        channel == private_data[f]
        n == Arrived(buf, count)
        done == IF n < count THEN [call EXCEPT !.ret = -EPERM] ELSE call
        Fail(e) ==
            /\ last' = [call EXCEPT !.ret = e]
            /\ UNCHANGED <<kern, files>>
    IN  IF channel = NULL THEN Fail(-EINVAL)
        ELSE IF count = 0 \/ count > MSG_MAX THEN Fail(-EMSGSIZE)
        ELSE IF IsChan(heap, channel)
        THEN /\ heap' = [heap EXCEPT
                    ![channel].message = Copied(buf, n),
                    ![channel].message_len = IF n < count THEN @ ELSE count]
             /\ last' = done
             /\ UNCHANGED <<brk, slots, corrupt, files>>
        ELSE \* the slot is written as if it were a channel; the memset and the
             \* store of message_len run past its 32 bytes
             /\ heap' = [heap EXCEPT ![channel] = SlotOverwritten(@, Copied(buf, n))]
             /\ corrupt' = TRUE
             /\ last' = done
             /\ UNCHANGED <<brk, slots, files>>

\* ------------------------------------------------------------- device_read
\* channel->message_len and channel->message as read through a pointer p cast
\* to struct message_channel *; of a slot object message_len lies past the
\* object, and so is any value
ChannelViews(h, p) ==
    IF IsChan(h, p)
    THEN {[message_len |-> h[p].message_len, message |-> h[p].message]}
    ELSE {[message_len |-> g, message |-> Garbage(MSG_MAX)] : g \in {0, 2}}

\* a read that consumes the message it returns
device_read_consumes(f, count, room) ==
    LET call == [Call("read", f, 0) EXCEPT !.count = count, !.room = room]
        channel == private_data[f]
    IN  /\ IsChan(heap, channel)
        /\ heap[channel].message_len > 0
        /\ count >= heap[channel].message_len /\ room >= heap[channel].message_len
        /\ last' = [call EXCEPT !.ret = heap[channel].message_len,
                                !.data = Bytes(heap[channel].message, 1, heap[channel].message_len)]
        /\ heap' = [heap EXCEPT ![channel].message_len = 0]
        /\ UNCHANGED <<brk, slots, corrupt, files>>

\* a read that wants room for one byte more than the message
device_read_strict(f, count, room) ==
    LET call == [Call("read", f, 0) EXCEPT !.count = count, !.room = room]
        channel == private_data[f]
    IN  /\ IsChan(heap, channel)
        /\ heap[channel].message_len > 0
        /\ room >= heap[channel].message_len
        /\ last' = IF count <= heap[channel].message_len
                   THEN [call EXCEPT !.ret = -ENOSPC]
                   ELSE [call EXCEPT !.ret = heap[channel].message_len,
                            !.data = Bytes(heap[channel].message, 1, heap[channel].message_len)]
        /\ UNCHANGED <<kern, files>>

\* copy_to_user(buf, src, n): buf is writable for room bytes
device_read(f, count, room) ==
    LET call == [Call("read", f, 0) EXCEPT !.count = count, !.room = room]
        channel == private_data[f]
        Return(c) ==
            /\ last' = c
            /\ UNCHANGED <<kern, files>>
    IN  IF channel = NULL THEN Return([call EXCEPT !.ret = -EPERM])
        ELSE \E v \in ChannelViews(heap, channel) :
                IF v.message_len = 0 THEN Return([call EXCEPT !.ret = -EWOULDBLOCK])
                ELSE IF count < v.message_len THEN Return([call EXCEPT !.ret = -ENOSPC])
                ELSE IF room < v.message_len THEN Return([call EXCEPT !.ret = -EPERM])
                ELSE Return([call EXCEPT !.ret = v.message_len,
                                         !.data = Bytes(v.message, 1, v.message_len)])

\* ------------------------------------------------------------ the callers
\* a 128-byte message
B128 == [i \in 1..MSG_MAX |-> IF i \in {1, 21, MSG_MAX} THEN 7 ELSE 0]

WriteCall(buf, count) == [buf |-> buf, count |-> count]
ReadCall(count, room) == [count |-> count, room |-> room]
IoctlCall(cmd, hi, lo) == [cmd |-> cmd, param |-> [hi |-> hi, lo |-> lo]]

\* An environment: the device files there are (minors), and the calls the
\* processes make.  write(fd, buf, count) with count larger than the buffer
\* makes the copy fault; room is the writable size of read's buffer; ioctl's
\* param is an unsigned long, given as its two dwords.
SelEnv ==
    [minors |-> {0},
     ioctls |-> {IoctlCall(MSG_SLOT_CHANNEL, 0, l) : l \in 0..(MAX_CHANNELS + 1)}
                \cup {IoctlCall(MSG_SLOT_CHANNEL, 1, 0), IoctlCall(MSG_SLOT_CHANNEL + 1, 0, 1)},
     writes |-> {WriteCall(<<1, 2>>, 2)},
     reads  |-> {ReadCall(MSG_MAX, MSG_MAX)}]

MsgEnv ==
    [minors |-> {0},
     ioctls |-> {IoctlCall(MSG_SLOT_CHANNEL, 0, 1), IoctlCall(MSG_SLOT_CHANNEL, 0, 2)},
     writes |-> {WriteCall(<<>>, 0), WriteCall(<<>>, 1), WriteCall(<<1, 2>>, 2),
                 WriteCall(<<1, 2>>, 3), WriteCall(B128, MSG_MAX),
                 WriteCall(B128, MSG_MAX + 1)},
     reads  |-> {ReadCall(1, MSG_MAX), ReadCall(2, MSG_MAX), ReadCall(MSG_MAX, MSG_MAX),
                 ReadCall(MSG_MAX, 0)}]

\* ----------------------------------------- calls that run one at a time
Open(f, E) ==
    /\ ~corrupt /\ pc[f] = "idle"
    /\ fstate[f] = "closed"
    /\ \E minor \in E.minors, alloc_ok \in BOOLEAN : device_open(f, minor, alloc_ok)
    /\ UNCHANGED <<pc, loc, proc, sent>>

Close(f) ==
    /\ ~corrupt /\ pc[f] = "idle"
    /\ fstate[f] = "open"
    /\ device_release(f)
    /\ UNCHANGED <<pc, loc, proc, sent>>

Ioctl(f, E) ==
    /\ ~corrupt /\ pc[f] = "idle"
    /\ fstate[f] = "open"
    /\ \E c \in E.ioctls : device_ioctl(f, c.cmd, c.param)
    /\ UNCHANGED <<pc, loc, proc, sent>>

Write(f, E) ==
    /\ ~corrupt /\ pc[f] = "idle"
    /\ fstate[f] = "open"
    /\ \E c \in E.writes : device_write(f, c.buf, c.count)
    /\ UNCHANGED <<pc, loc, proc, sent>>

Read(f, E) ==
    /\ ~corrupt /\ pc[f] = "idle"
    /\ fstate[f] = "open"
    /\ \E c \in E.reads : device_read(f, c.count, c.room)
    /\ UNCHANGED <<pc, loc, proc, sent>>

Calls(E) ==
    \/ \E f \in Files : Open(f, E)
    \/ \E f \in Files : Ioctl(f, E)
    \/ \E f \in Files : Write(f, E)
    \/ \E f \in Files : Read(f, E)
    \/ \E f \in Files : Close(f)

\* channel selection in full, one message
Next == Calls(SelEnv)
Spec == Init /\ [][Next]_vars

\* messages in full, two channels
NextMsg == Calls(MsgEnv)
SpecMsg == Init /\ [][NextMsg]_vars

\* two device files, the same channel ids in both
IsoEnv ==
    [minors |-> {0, 1},
     ioctls |-> {IoctlCall(MSG_SLOT_CHANNEL, 0, 1), IoctlCall(MSG_SLOT_CHANNEL, 0, 2)},
     writes |-> {WriteCall(<<1, 2>>, 2), WriteCall(<<3>>, 1)},
     reads  |-> {ReadCall(MSG_MAX, MSG_MAX)}]
NextIso == Calls(IsoEnv)
SpecIso == Init /\ [][NextIso]_vars

\* ------------------------------------- message_sender.c, message_reader.c
\* argv of the two programs: the device file, the channel id, the message
ClientIds == {[hi |-> 0, lo |-> l] : l \in 0..MAX_CHANNELS}
ClientMsgs == {<<>>, <<3>>, <<1, 2>>}
Program(prog, minor, id, msg) ==
    [prog |-> prog, at |-> "open", minor |-> minor, channel_id |-> id, msg |-> msg]

\* a process starts one of the programs
Exec(f) ==
    /\ proc[f].prog = "none"
    /\ fstate[f] = "closed"
    /\ \E minor \in {0}, id \in ClientIds :
          \/ \E msg \in ClientMsgs : proc' = [proc EXCEPT ![f] = Program("sender", minor, id, msg)]
          \/ proc' = [proc EXCEPT ![f] = Program("reader", minor, id, <<>>)]
    /\ UNCHANGED <<kern, files, last, pc, loc, sent>>

\* fd = open(argv[1], ...); on failure exit
ClientOpen(f) ==
    /\ proc[f].prog # "none" /\ proc[f].at = "open"
    /\ \E alloc_ok \in BOOLEAN : device_open(f, proc[f].minor, alloc_ok)
    /\ proc' = [proc EXCEPT ![f] = IF last'.ret < 0 THEN NoProgram
                                   ELSE [@ EXCEPT !.at = "ioctl"]]
    /\ UNCHANGED <<pc, loc, sent>>

\* ioctl(fd, MSG_SLOT_CHANNEL, channel_id); on failure close and exit
ClientIoctl(f) ==
    /\ proc[f].prog # "none" /\ proc[f].at = "ioctl"
    /\ device_ioctl(f, MSG_SLOT_CHANNEL, proc[f].channel_id)
    /\ proc' = [proc EXCEPT ![f].at = IF last'.ret < 0 THEN "close"
                                      ELSE IF proc[f].prog = "sender" THEN "write"
                                      ELSE "read"]
    /\ UNCHANGED <<pc, loc, sent>>

\* write(fd, argv[3], strlen(argv[3])), then close
SenderWrite(f) ==
    /\ proc[f].prog = "sender" /\ proc[f].at = "write"
    /\ device_write(f, proc[f].msg, Len(proc[f].msg))
    /\ proc' = [proc EXCEPT ![f].at = "close"]
    /\ sent' = IF last'.ret > 0
               THEN [sent EXCEPT ![<<proc[f].minor, Narrow(proc[f].channel_id)>>] = proc[f].msg]
               ELSE sent
    /\ UNCHANGED <<pc, loc>>

\* read(fd, buffer, sizeof(buffer)) with char buffer[128], then close
ReaderRead(f) ==
    /\ proc[f].prog = "reader" /\ proc[f].at = "read"
    /\ device_read(f, MSG_MAX, MSG_MAX)
    /\ proc' = [proc EXCEPT ![f].at = "close"]
    /\ UNCHANGED <<pc, loc, sent>>

\* close(fd) and exit
ClientClose(f) ==
    /\ proc[f].prog # "none" /\ proc[f].at = "close"
    /\ device_release(f)
    /\ proc' = [proc EXCEPT ![f] = NoProgram]
    /\ UNCHANGED <<pc, loc, sent>>

NextClients ==
    \/ \E f \in Files : Exec(f)
    \/ \E f \in Files : ClientOpen(f)
    \/ \E f \in Files : ClientIoctl(f)
    \/ \E f \in Files : SenderWrite(f)
    \/ \E f \in Files : ReaderRead(f)
    \/ \E f \in Files : ClientClose(f)
SpecClients == Init /\ [][NextClients]_vars

\* ------------------------------------------ handlers that run interleaved
\* The module takes no lock, so two handlers interleave at every access to
\* the lists, the counters and the message buffers.  Each action below is one
\* such access of the handler that file f is in; pc[f] is the statement it
\* stands before.  The sessions follow the protocol: one select after open,
\* reads and writes on a selected channel.
ConcEnv ==
    [minors |-> {0},
     ioctls |-> {IoctlCall(MSG_SLOT_CHANNEL, 0, 1), IoctlCall(MSG_SLOT_CHANNEL, 0, 2)},
     writes |-> {WriteCall(<<1, 2>>, 2), WriteCall(<<3>>, 1)},
     reads  |-> {ReadCall(MSG_MAX, MSG_MAX)}]

Enter(f, at, locals) ==
    /\ pc' = [pc EXCEPT ![f] = at]
    /\ loc' = [loc EXCEPT ![f] = locals]
Goto(f, at) == Enter(f, at, loc[f])
Return(f, call) ==
    /\ pc' = [pc EXCEPT ![f] = "idle"]
    /\ loc' = [loc EXCEPT ![f] = NoLocals]
    /\ last' = call
Failed(f, e, why) == Return(f, [loc[f].call EXCEPT !.ret = e, !.why = why])

\* *ptr of device_open: ptr is &slots (NULL here) or &node->next
Deref(h, s, ptr) == IF ptr = NULL THEN s ELSE h[ptr].next

\* device_open: ptr = &slots
open_begin(f, minor) ==
    /\ pc[f] = "idle" /\ fstate[f] = "closed"
    /\ Enter(f, "open_loop", [NoLocals EXCEPT !.call = [Call("open", f, 0) EXCEPT !.minor = minor]])
    /\ UNCHANGED <<kern, files, last, proc, sent>>

\* one turn of while (*ptr != NULL)
open_loop(f) ==
    /\ pc[f] = "open_loop"
    /\ LET p == Deref(heap, slots, loc[f].ptr)
       IN  IF p = NULL THEN Goto(f, "open_alloc")
           ELSE IF heap[p].minor = loc[f].call.minor
           THEN Enter(f, "open_attach", [loc[f] EXCEPT !.slot = p])
           ELSE Enter(f, "open_loop", [loc[f] EXCEPT !.ptr = p])
    /\ UNCHANGED <<kern, files, last, proc, sent>>

\* slot = kmalloc(...) and the initialisation of its fields
open_alloc(f) ==
    /\ pc[f] = "open_alloc"
    /\ \E alloc_ok \in BOOLEAN :
          LET new == kmalloc_slot(alloc_ok)
          IN  IF new = NULL
              THEN /\ Failed(f, -ENOMEM, "nomem")
                   /\ UNCHANGED <<kern, files>>
              ELSE /\ heap' = [heap EXCEPT ![new] = SlotObj(NULL, 0, loc[f].call.minor, NULL)]
                   /\ brk' = [brk EXCEPT !.slot = @ + 1]
                   /\ Enter(f, "open_link", [loc[f] EXCEPT !.slot = new])
                   /\ UNCHANGED <<slots, corrupt, files, last>>
    /\ UNCHANGED <<proc, sent>>

\* *ptr = slot
open_link(f) ==
    /\ pc[f] = "open_link"
    /\ IF loc[f].ptr = NULL
       THEN slots' = loc[f].slot /\ UNCHANGED heap
       ELSE heap' = [heap EXCEPT ![loc[f].ptr].next = loc[f].slot] /\ UNCHANGED slots
    /\ Goto(f, "open_attach")
    /\ UNCHANGED <<brk, corrupt, files, last, proc, sent>>

\* file->private_data = slot; return 0
open_attach(f) ==
    /\ pc[f] = "open_attach"
    /\ fstate' = [fstate EXCEPT ![f] = "open"]
    /\ private_data' = [private_data EXCEPT ![f] = loc[f].slot]
    /\ f_slot' = [f_slot EXCEPT ![f] = loc[f].slot]
    /\ Return(f, loc[f].call)
    /\ UNCHANGED <<kern, proc, sent>>

\* device_ioctl up to the call of get_or_create_channel, and its first load,
\* current_channel = slot->channels
ioctl_begin(f, c) ==
    /\ pc[f] = "idle" /\ fstate[f] = "open" /\ IsSlot(heap, private_data[f])
    /\ LET call == [Call("ioctl", f, 0) EXCEPT !.cmd = c.cmd, !.param = c.param]
           slot == private_data[f]
       IN  IF c.cmd # MSG_SLOT_CHANNEL \/ ParamIsZero(c.param)
           THEN /\ Return(f, [call EXCEPT !.ret = -EINVAL, !.why = "invalid"])
           ELSE /\ Enter(f, "goc_loop", [NoLocals EXCEPT !.call = call, !.slot = slot,
                                                         !.cur = heap[slot].channels])
                /\ UNCHANGED last
    /\ UNCHANGED <<kern, files, proc, sent>>

\* file->private_data = channel; return 0
goc_return(f, channel, why) ==
    /\ private_data' = [private_data EXCEPT ![f] = channel]
    /\ Return(f, [loc[f].call EXCEPT !.why = why])
    /\ UNCHANGED <<fstate, f_slot>>

\* one turn of while (current_channel)
goc_loop(f) ==
    /\ pc[f] = "goc_loop"
    /\ LET cur == loc[f].cur
       IN  IF cur = NULL THEN Goto(f, "goc_limit") /\ UNCHANGED <<files, last>>
           ELSE IF heap[cur].channel_id = Narrow(loc[f].call.param)
           THEN goc_return(f, cur, "found")
           ELSE /\ Enter(f, "goc_loop", [loc[f] EXCEPT !.cur = heap[cur].next])
                /\ UNCHANGED <<files, last>>
    /\ UNCHANGED <<kern, proc, sent>>

\* if (slot->channel_count >= MAX_CHANNELS) return NULL, and ioctl fails
goc_limit(f) ==
    /\ pc[f] = "goc_limit"
    /\ IF heap[loc[f].slot].channel_count >= MAX_CHANNELS
       THEN Failed(f, -EINVAL, "limit")
       ELSE Goto(f, "goc_alloc") /\ UNCHANGED last
    /\ UNCHANGED <<kern, files, proc, sent>>

\* new_channel = kmalloc(...); channel_id and message_len are set, next is not yet
goc_alloc(f) ==
    /\ pc[f] = "goc_alloc"
    /\ \E alloc_ok \in BOOLEAN :
          LET new == kmalloc_chan(alloc_ok)
          IN  IF new = NULL
              THEN /\ Failed(f, -EINVAL, "nomem")
                   /\ UNCHANGED kern
              ELSE /\ heap' = [heap EXCEPT ![new] =
                          ChanObj(Narrow(loc[f].call.param), Garbage(MSG_MAX), 0, WILD)]
                   /\ brk' = [brk EXCEPT !.chan = @ + 1]
                   /\ Enter(f, "goc_next", [loc[f] EXCEPT !.new = new])
                   /\ UNCHANGED <<slots, corrupt, last>>
    /\ UNCHANGED <<files, proc, sent>>

\* new_channel->next = slot->channels
goc_next(f) ==
    /\ pc[f] = "goc_next"
    /\ heap' = [heap EXCEPT ![loc[f].new].next = heap[loc[f].slot].channels]
    /\ Goto(f, "goc_link")
    /\ UNCHANGED <<brk, slots, corrupt, files, last, proc, sent>>

\* slot->channels = new_channel
goc_link(f) ==
    /\ pc[f] = "goc_link"
    /\ heap' = [heap EXCEPT ![loc[f].slot].channels = loc[f].new]
    /\ Goto(f, "goc_load")
    /\ UNCHANGED <<brk, slots, corrupt, files, last, proc, sent>>

\* slot->channel_count++, the load
goc_load(f) ==
    /\ pc[f] = "goc_load"
    /\ Enter(f, "goc_store", [loc[f] EXCEPT !.n = heap[loc[f].slot].channel_count])
    /\ UNCHANGED <<kern, files, last, proc, sent>>

\* slot->channel_count++, the store; return new_channel, and ioctl binds it
goc_store(f) ==
    /\ pc[f] = "goc_store"
    /\ heap' = [heap EXCEPT ![loc[f].slot].channel_count = loc[f].n + 1]
    /\ goc_return(f, loc[f].new, "created")
    /\ UNCHANGED <<brk, slots, corrupt, proc, sent>>

\* device_write up to the memset
write_begin(f, c) ==
    /\ pc[f] = "idle" /\ Bound(f)
    /\ LET call == [Call("write", f, c.count) EXCEPT !.buf = c.buf, !.count = c.count]
       IN  IF c.count = 0 \/ c.count > MSG_MAX
           THEN Return(f, [call EXCEPT !.ret = -EMSGSIZE])
           ELSE /\ Enter(f, "write_memset", [NoLocals EXCEPT !.call = call, !.cur = private_data[f]])
                /\ UNCHANGED last
    /\ UNCHANGED <<kern, files, proc, sent>>

\* memset(channel->message, 0, sizeof(channel->message))
write_memset(f) ==
    /\ pc[f] = "write_memset"
    /\ heap' = [heap EXCEPT ![loc[f].cur].message = Zeros(MSG_MAX)]
    /\ Goto(f, "write_copy")
    /\ UNCHANGED <<brk, slots, corrupt, files, last, proc, sent>>

\* copy_from_user(channel->message, buf, count)
write_copy(f) ==
    /\ pc[f] = "write_copy"
    /\ LET call == loc[f].call
           n == Arrived(call.buf, call.count)
       IN  /\ heap' = [heap EXCEPT ![loc[f].cur].message =
                          [i \in 1..MSG_MAX |-> IF i <= n THEN call.buf[i] ELSE @[i]]]
           /\ IF n < call.count
              THEN Failed(f, -EPERM, "")
              ELSE Goto(f, "write_len") /\ UNCHANGED last
    /\ UNCHANGED <<brk, slots, corrupt, files, proc, sent>>

\* channel->message_len = count; return count
write_len(f) ==
    /\ pc[f] = "write_len"
    /\ heap' = [heap EXCEPT ![loc[f].cur].message_len = loc[f].call.count]
    /\ Return(f, loc[f].call)
    /\ UNCHANGED <<brk, slots, corrupt, files, proc, sent>>

\* device_read up to its first load of channel->message_len
read_begin(f, c) ==
    /\ pc[f] = "idle" /\ Bound(f)
    /\ Enter(f, "read_empty", [NoLocals EXCEPT !.cur = private_data[f],
            !.call = [Call("read", f, 0) EXCEPT !.count = c.count, !.room = c.room]])
    /\ UNCHANGED <<kern, files, last, proc, sent>>

\* channel->message_len where the handler stands: the value it loaded first,
\* kept in a register, or the one in memory now
MessageLen(f) == {loc[f].len, heap[loc[f].cur].message_len}

\* if (channel->message_len == 0) return -EWOULDBLOCK
read_empty(f) ==
    /\ pc[f] = "read_empty"
    /\ LET len == heap[loc[f].cur].message_len
       IN  IF len = 0 THEN Failed(f, -EWOULDBLOCK, "")
           ELSE Enter(f, "read_space", [loc[f] EXCEPT !.len = len]) /\ UNCHANGED last
    /\ UNCHANGED <<kern, files, proc, sent>>

\* if (count < channel->message_len) return -ENOSPC
read_space(f) ==
    /\ pc[f] = "read_space"
    /\ \E len \in MessageLen(f) :
          IF loc[f].call.count < len THEN Failed(f, -ENOSPC, "")
          ELSE Goto(f, "read_copy") /\ UNCHANGED last
    /\ UNCHANGED <<kern, files, proc, sent>>

\* copy_to_user(buf, channel->message, channel->message_len)
read_copy(f) ==
    /\ pc[f] = "read_copy"
    /\ \E len \in MessageLen(f) :
          IF loc[f].call.room < len THEN Failed(f, -EPERM, "")
          ELSE /\ Enter(f, "read_return",
                        [loc[f] EXCEPT !.call.data = Bytes(heap[loc[f].cur].message, 1, len)])
               /\ UNCHANGED last
    /\ UNCHANGED <<kern, files, proc, sent>>

\* return channel->message_len
read_return(f) ==
    /\ pc[f] = "read_return"
    /\ \E len \in MessageLen(f) : Return(f, [loc[f].call EXCEPT !.ret = len])
    /\ UNCHANGED <<kern, files, proc, sent>>

\* the first select of a session, as one step
select(f, E) == IsSlot(heap, private_data[f]) /\ Ioctl(f, E)

\* open and select interleaved
NextConc ==
    \/ \E f \in Files, minor \in ConcEnv.minors : open_begin(f, minor)
    \/ \E f \in Files : open_loop(f)
    \/ \E f \in Files : open_alloc(f)
    \/ \E f \in Files : open_link(f)
    \/ \E f \in Files : open_attach(f)
    \/ \E f \in Files, c \in ConcEnv.ioctls : ioctl_begin(f, c)
    \/ \E f \in Files : goc_loop(f)
    \/ \E f \in Files : goc_limit(f)
    \/ \E f \in Files : goc_alloc(f)
    \/ \E f \in Files : goc_next(f)
    \/ \E f \in Files : goc_link(f)
    \/ \E f \in Files : goc_load(f)
    \/ \E f \in Files : goc_store(f)
    \/ \E f \in Files : Close(f)
SpecConc == Init /\ [][NextConc]_vars

\* reads and writes interleaved on one channel, on sessions opened and selected
\* one at a time
RWEnv == [ConcEnv EXCEPT !.ioctls = {IoctlCall(MSG_SLOT_CHANNEL, 0, 1)}]
NextRW ==
    \/ \E f \in Files : Open(f, RWEnv)
    \/ \E f \in Files : select(f, RWEnv)
    \/ \E f \in Files, c \in ConcEnv.writes : write_begin(f, c)
    \/ \E f \in Files : write_memset(f)
    \/ \E f \in Files : write_copy(f)
    \/ \E f \in Files : write_len(f)
    \/ \E f \in Files, c \in ConcEnv.reads : read_begin(f, c)
    \/ \E f \in Files : read_empty(f)
    \/ \E f \in Files : read_space(f)
    \/ \E f \in Files : read_copy(f)
    \/ \E f \in Files : read_return(f)
    \/ \E f \in Files : Close(f)
SpecRW == Init /\ [][NextRW]_vars

\* ------------------------------------------------------------------ claims
\* the channels linked in a list that starts at p
RECURSIVE ListFrom(_, _)
ListFrom(h, p) == IF ~IsChan(h, p) THEN {} ELSE {p} \cup ListFrom(h, h[p].next)
\* the channel table of a slot
ChannelsOf(h, slot) == ListFrom(h, h[slot].channels)
\* the message a channel holds: message_len bytes of its buffer
Stored(h, c) == Bytes(h[c].message, 1, h[c].message_len)
\* the session of file f is open and no select-channel has succeeded on it
Unselected(f) == fstate[f] = "open" /\ private_data[f] = f_slot[f]

\* C1 Round-trip: a successful write of m on a bound session, directly followed
\* by a read on the same session with capacity >= len(m) into a writable
\* buffer, returns len(m) bytes equal to m.
C1_RoundTrip ==
    [][(/\ last.op = "write" /\ last.ret > 0
        /\ Bound(last.f)
        /\ last'.op = "read" /\ last'.f = last.f
        /\ last'.count >= last.ret /\ last'.room >= last.ret)
       => (/\ last'.ret = last.count
           /\ last'.data = Bytes(last.buf, 1, last.count))]_vars

\* a read that returned the 128-byte message
C1_Witness ==
    /\ last.op = "read" /\ last.ret = MSG_MAX /\ last.data = B128
    /\ Bound(last.f)

\* C2 Cross-session delivery: a reader that opens the device, selects channel c
\* and reads 128 bytes gets the message the last sender wrote to that channel;
\* a close changes no slot, channel or stored message.
C2_ReaderGets ==
    (last.op = "read" /\ proc[last.f].prog = "reader")
    => LET m == sent[<<proc[last.f].minor, Narrow(proc[last.f].channel_id)>>]
       IN  m # <<>> => (last.ret = Len(m) /\ last.data = m)
C2_Delivery ==
    [][/\ C2_ReaderGets'
       /\ last'.op = "close" => UNCHANGED <<heap, brk, slots>>]_vars

\* a reader got <<1, 2>> after its sender has closed and exited
C2_Witness ==
    /\ last.op = "read" /\ last.data = <<1, 2>>
    /\ proc[last.f].prog = "reader"
    /\ \A g \in Files \ {last.f} : proc[g].prog = "none" /\ fstate[g] = "closed"

\* C3 Unselected session: every write and every read on an open session with
\* no successful select-channel fails with ChannelNotSelected (-EINVAL from
\* write, -1 from read) and changes no slot, channel or message.
C3_UnselectedFails ==
    [][(/\ last'.op \in {"write", "read"}
        /\ Unselected(last'.f))
       => (/\ last'.ret = IF last'.op = "write" THEN -EINVAL ELSE -EPERM
           /\ UNCHANGED <<heap, brk, slots>>)]_vars

\* C4 Rebinding: after every successful select-channel(s, id), the second and
\* later ones included, s is bound to the channel with that id in the table of
\* the slot s was opened on.
C4_Rebinding ==
    [][(/\ last'.op = "ioctl" /\ last'.ret = 0 /\ ~last'.oops
        /\ fstate[last'.f] = "open")
       => (/\ IsChan(heap', private_data'[last'.f])
           /\ heap'[private_data'[last'.f]].channel_id = Narrow(last'.param)
           /\ private_data'[last'.f] \in ChannelsOf(heap', f_slot[last'.f]))]_vars

\* C5 Idempotent selection: select-channel(s, id) twice in a row on the same
\* session, for an id that holds a message, succeeds, leaves the stored
\* message, creates no channel and leaves s bound to the same channel.
C5_IdempotentSelect ==
    [][(/\ last.op = "ioctl" /\ last.ret = 0 /\ ~last.oops
        /\ Bound(last.f)
        /\ heap[private_data[last.f]].message_len > 0
        /\ last'.op = "ioctl" /\ last'.f = last.f
        /\ last'.cmd = last.cmd /\ last'.param = last.param)
       => (/\ last'.ret = 0 /\ ~last'.oops
           /\ UNCHANGED <<heap, brk, private_data>>)]_vars

\* C6 A failed write on a bound session (a copy fault included) leaves the
\* bound channel's stored bytes and length as they were.
C6_FailedWriteKeepsMessage ==
    [][(/\ last'.op = "write" /\ last'.ret < 0
        /\ Bound(last'.f))
       => (/\ Stored(heap', private_data[last'.f]) = Stored(heap, private_data[last'.f])
           /\ UNCHANGED <<brk, slots, private_data>>)]_vars

\* C7 A failed select-channel leaves the session's binding as it was and adds
\* no channel to any slot.
C7_FailedSelectKeepsBinding ==
    [][(last'.op = "ioctl" /\ last'.ret < 0)
       => UNCHANGED <<private_data, heap, brk, slots>>]_vars

\* a select-channel that failed on a bound session, which is still bound
C7_Witness ==
    /\ last.op = "ioctl" /\ last.ret = -EINVAL
    /\ Bound(last.f)

\* C8 Concurrent first selection: two sessions on the same slot that select the
\* same id end up bound to the same channel object, and a slot's table holds
\* at most one channel per id.
C8_OneChannelPerId ==
    /\ \A f, g \in Files :
          (/\ pc[f] = "idle" /\ pc[g] = "idle" /\ Bound(f) /\ Bound(g)
           /\ f_slot[f] = f_slot[g]
           /\ heap[private_data[f]].channel_id = heap[private_data[g]].channel_id)
          => private_data[f] = private_data[g]
    /\ \A a \in SlotAddr : IsSlot(heap, a) =>
          \A c, d \in ChannelsOf(heap, a) :
             heap[c].channel_id = heap[d].channel_id => c = d

\* C9 Concurrent read/write: a read that succeeds on a selected channel returns
\* one of the messages that were written, whole.
C9_WholeMessage ==
    (last.op = "read" /\ last.ret > 0)
    => \E c \in RWEnv.writes :
          last.ret = c.count /\ last.data = Bytes(c.buf, 1, c.count)

\* C10 Channel cap: every slot holds at most MAX_CHANNELS channels; a
\* select-channel for an id the slot has succeeds; for a new id it succeeds
\* (or runs out of memory) below the cap, and at the cap it fails on the limit
\* and creates nothing.
C10_ChannelCap ==
    [][/\ \A a \in SlotAddr :
            IsSlot(heap', a) => Cardinality(ChannelsOf(heap', a)) <= MAX_CHANNELS
       /\ (/\ last'.op = "ioctl"
           /\ last'.cmd = MSG_SLOT_CHANNEL /\ last'.param.hi = 0 /\ last'.param.lo # 0
           /\ fstate[last'.f] = "open")
          => LET table == ChannelsOf(heap, f_slot[last'.f])
                 known == \E c \in table : heap[c].channel_id = Narrow(last'.param)
             IN  IF known THEN last'.ret = 0 /\ last'.why = "found"
                 ELSE IF Cardinality(table) < MAX_CHANNELS
                 THEN \/ last'.ret = 0 /\ last'.why = "created"
                      \/ last'.ret < 0 /\ last'.why = "nomem"
                 ELSE /\ last'.ret < 0 /\ last'.why = "limit"
                      /\ UNCHANGED <<heap, brk>>]_vars

\* C11 Isolation: a write through a session bound to channel A leaves every
\* other channel object, of the same slot or of another, as it was.
C11_Isolation ==
    [][(last'.op = "write" /\ Bound(last'.f))
       => \A b \in ChanAddr \ {private_data[last'.f]} : heap'[b] = heap[b]]_vars

\* a message was written while the channel of the same id in the other slot
\* holds a different one
C11_Witness ==
    /\ last.op = "write" /\ last.ret > 0 /\ Bound(last.f)
    /\ private_data[last.f] \in ChannelsOf(heap, f_slot[last.f])
    /\ \E b \in ChanAddr \ {private_data[last.f]}, t \in SlotAddr \ {f_slot[last.f]} :
          /\ IsSlot(heap, t) /\ b \in ChannelsOf(heap, t)
          /\ heap[b].channel_id = heap[private_data[last.f]].channel_id
          /\ heap[b].message_len > 0
          /\ Stored(heap, b) # Stored(heap, private_data[last.f])

\* C12 Read is non-destructive: a read, whatever it returns, changes no object
\* and no binding; a successful read of a channel directly after another
\* successful read of it returns the same message.
C12_ReadChangesNothing ==
    [][/\ last'.op = "read" => UNCHANGED <<heap, brk, slots, private_data>>
       /\ (/\ last.op = "read" /\ last.ret > 0 /\ Bound(last.f)
           /\ last'.op = "read" /\ last'.ret > 0
           /\ private_data[last'.f] = private_data[last.f])
          => (last'.ret = last.ret /\ last'.data = last.data)]_vars

\* a read through one session returned the message another session wrote
C12_Witness ==
    /\ last.op = "read" /\ last.ret = 2 /\ last.data = <<1, 2>>
    /\ Bound(last.f)
    /\ \E g \in Files \ {last.f} : Bound(g) /\ private_data[g] = private_data[last.f]

\* C13 Unwritten-channel read: a read on a bound session fails with -EWOULDBLOCK
\* exactly when the channel's length is 0; a channel is created with length 0,
\* and its length changes only in a successful write through a session bound
\* to it, which leaves it positive.  So the read fails with -EWOULDBLOCK exactly
\* when no write to the channel has succeeded.
C13_NoMessage ==
    [][/\ (last'.op = "read" /\ Bound(last'.f))
          => (last'.ret = -EWOULDBLOCK <=> heap[private_data[last'.f]].message_len = 0)
       /\ (last'.op = "ioctl" /\ last'.why = "created" /\ IsChan(heap', private_data'[last'.f]))
          => heap'[private_data'[last'.f]].message_len = 0
       /\ \A a \in ChanAddr : IsChan(heap, a) =>
             /\ IsChan(heap', a)
             /\ heap'[a].message_len # heap[a].message_len
                => (/\ last'.op = "write" /\ last'.ret > 0
                    /\ private_data[last'.f] = a
                    /\ heap'[a].message_len > 0)
       /\ (last'.op = "write" /\ last'.ret > 0 /\ Bound(last'.f))
          => heap'[private_data[last'.f]].message_len > 0]_vars

\* a read found no message on a channel whose buffer a faulting write has
\* cleared
C13_Witness ==
    /\ last.op = "read" /\ last.ret = -EWOULDBLOCK /\ Bound(last.f)
    /\ heap[private_data[last.f]].message = Zeros(MSG_MAX)

\* C14 Capacity check: on a bound channel that holds a message of L > 0 bytes, a
\* read with capacity below L fails with -ENOSPC, and a read with capacity L or
\* more into a writable buffer returns exactly the L bytes.
C14_Capacity ==
    [][(/\ last'.op = "read" /\ Bound(last'.f)
        /\ heap[private_data[last'.f]].message_len > 0)
       => LET L == heap[private_data[last'.f]].message_len
          IN  IF last'.count < L
              THEN last'.ret = -ENOSPC /\ last'.data = <<>>
              ELSE last'.room >= L
                   => (/\ last'.ret = L /\ Len(last'.data) = L
                       /\ last'.data = Stored(heap, private_data[last'.f]))]_vars

\* a read with capacity 2 was refused on a channel that holds 128 bytes
C14_Witness ==
    /\ last.op = "read" /\ last.ret = -ENOSPC /\ last.count = 2
    /\ Bound(last.f) /\ heap[private_data[last.f]].message_len = MSG_MAX

RECURSIVE SlotsFrom(_, _)
SlotsFrom(h, p) == IF ~IsSlot(h, p) THEN {} ELSE {p} \cup SlotsFrom(h, h[p].next)

\* C16 Slot identity is unique: the registry holds at most one slot per minor,
\* every slot object in use is in the registry, and the sessions that are open
\* on the same minor refer to the same slot.
C16_OneSlotPerMinor ==
    /\ \A a, b \in SlotsFrom(heap, slots) : heap[a].minor = heap[b].minor => a = b
    /\ \A f \in Files : fstate[f] = "open" => f_slot[f] \in SlotsFrom(heap, slots)
    /\ \A f, g \in Files :
          (/\ fstate[f] = "open" /\ fstate[g] = "open"
           /\ heap[f_slot[f]].minor = heap[f_slot[g]].minor)
          => f_slot[f] = f_slot[g]

\* C17 Channel id is never zero: no channel object has channel_id 0, and a
\* select whose parameter narrows to the 32-bit id 0 fails with -EINVAL and
\* creates nothing.
C17_NoChannelZero ==
    [][/\ \A a \in ChanAddr : IsChan(heap', a) => heap'[a].channel_id # 0
       /\ (/\ last'.op = "ioctl" /\ last'.cmd = MSG_SLOT_CHANNEL
           /\ IsSlot(heap, private_data[last'.f])
           /\ Narrow(last'.param) = 0)
          => (last'.ret = -EINVAL /\ UNCHANGED <<heap, brk>>)]_vars

\* C18 Channels persist: the channel a select has returned to a session stays
\* in the table of the session's slot, whatever selects of other ids run on
\* that slot at the same time.  (Stated for a channel whose id no other
\* channel object carries, so that only selects of other ids are involved.)
C18_ChannelsPersist ==
    \A f \in Files :
       (/\ pc[f] = "idle" /\ Bound(f)
        /\ \A b \in ChanAddr :
              (IsChan(heap, b) /\ heap[b].channel_id = heap[private_data[f]].channel_id)
              => b = private_data[f])
       => private_data[f] \in ChannelsOf(heap, f_slot[f])

\* C19 Distinct error values: two selects that fail for different reasons
\* (id 0, limit reached, allocation failure) return different values; a read
\* that fails in the copy to the caller returns a value other than the one
\* device_read returns for a session without a channel (-1, that is -EPERM).
C19_DistinctErrors ==
    [][/\ (/\ last.op = "ioctl" /\ last.ret < 0 /\ last.cmd = MSG_SLOT_CHANNEL
           /\ last'.op = "ioctl" /\ last'.ret < 0 /\ last'.cmd = MSG_SLOT_CHANNEL
           /\ last'.why # last.why)
          => last'.ret # last.ret
       /\ (/\ last'.op = "read" /\ last'.ret < 0 /\ Bound(last'.f)
           /\ heap[private_data[last'.f]].message_len > 0
           /\ last'.count >= heap[private_data[last'.f]].message_len
           /\ last'.room < heap[private_data[last'.f]].message_len)
          => last'.ret # -EPERM]_vars

\* C20 Channel-count consistency: whenever no select stands between linking its
\* new channel and counting it, each slot's channel_count is the number of
\* channels in its list, and the ids in one list are pairwise distinct.
C20_CountMatchesList ==
    (\A f \in Files : pc[f] \notin {"goc_load", "goc_store"})
    => \A a \in SlotAddr : IsSlot(heap, a) =>
          /\ heap[a].channel_count = Cardinality(ChannelsOf(heap, a))
          /\ \A c, d \in ChannelsOf(heap, a) :
                heap[c].channel_id = heap[d].channel_id => c = d
====
